---- MODULE Spec2Model ----
(***************************************************************************)
(* A model of the TCTS trainer (qlib/contrib/model/pytorch_tcts.py) and of *)
(* the recorder based online tool (qlib/workflow/online/utils.py).         *)
(*                                                                         *)
(* Network parameters are abstract values: every optimizer step that       *)
(* updates a network gives it a value never seen before (taken from        *)
(* `clock`), so that "the same parameters" means "the result of the same   *)
(* optimizer step".  A validation loss is a natural number or NaN.         *)
(***************************************************************************)
EXTENDS Integers, Sequences, FiniteSets, TLC

\* ---------------------------------------------------------------- bounds
MaxEpochs == 3
MaxEarlyStop == 2
MaxSteps == 2
MaxBatch == 2
MaxRows == 2
MaxLoss == 1
MaxFits == 2

\* ------------------------------------------------------- float arithmetic
\* np.mean of an empty list of losses (and any diverged loss) is nan.
NaN == -1

\* np.inf, the initial best loss: above every finite loss.
Inf == MaxLoss + 1

\* The IEEE comparison a < b of the code: false when either side is nan.
Less(a, b) == a # NaN /\ b # NaN /\ a < b

\* ------------------------------------------------------------- batching
\* The start offsets range(n)[::b] of the code's batch loops.
RECURSIVE Starts(_, _, _)
Starts(i, n, b) == IF i >= n THEN <<>> ELSE <<i>> \o Starts(i + b, n, b)

\* The batches <<begin, end>> (end exclusive) a training or evaluation pass
\* processes: the loop breaks at the first start with fewer than b rows left.
RECURSIVE DropLast(_, _, _)
DropLast(s, n, b) ==
    IF s = <<>> \/ n - Head(s) < b THEN <<>>
    ELSE <<<<Head(s), Head(s) + b>>>> \o DropLast(Tail(s), n, b)

\* The code has this loop three times: Phase A, Phase B and test_epoch.
PhaseABatches(n, b) == DropLast(Starts(0, n, b), n, b)

PhaseBBatches(n, b) == DropLast(Starts(0, n, b), n, b)

TestBatches(n, b) == DropLast(Starts(0, n, b), n, b)

\* The batches predict processes: the last one is cut to the rows left.
RECURSIVE KeepLast(_, _, _)
KeepLast(s, n, b) ==
    IF s = <<>> THEN <<>>
    ELSE <<<<Head(s), IF n - Head(s) < b THEN n ELSE Head(s) + b>>>>
             \o KeepLast(Tail(s), n, b)

PredictBatches(n, b) == KeepLast(Starts(0, n, b), n, b)

\* ------------------------------------------------------------- trainer
VARIABLES
    cfg,             \* n_epochs, batch_size, early_stop, steps
    fore, weight,    \* parameters of the Forecast and the Weight Network
    clock,           \* the last parameter value handed out
    fore_grad, weight_grad,          \* requires_grad of each network
    fore_training, weight_training,  \* train()/eval() mode of each network
    fitted,
    ckpt_fore, ckpt_weight,  \* the two checkpoint files: <<>> or <<params>>
    pc,              \* where fit is: idle, train, phaseA, phaseB, decide, reload
    n_train, n_valid,        \* rows of the dataset given to fit
    epoch, best_loss, best_epoch, stop_round, val_loss,
    init_fore,       \* parameters of train_epoch's init_fore_model
    a_done, b_done,  \* optimizer steps done in Phase A / Phase B of this epoch
    fits,            \* fit calls started
    result,          \* how the last call ended
    lossHist, foreHist, weightHist,  \* per epoch of this fit: loss, parameters
    stalled,         \* whether this fit left its loop through the break
    pred_in, pred_out, pred_fwd,     \* last predict: rows, output, forward passes
    pred_repeat,     \* the last predict repeated the input of the one before it
    last_batch       \* the mini-batch train_epoch processed last: the
                     \* parameters behind init_pred, pred and weight_feature

varsT == <<cfg, fore, weight, clock, fore_grad, weight_grad, fore_training,
           weight_training, fitted, ckpt_fore, ckpt_weight, pc, n_train,
           n_valid, epoch, best_loss, best_epoch, stop_round, val_loss,
           init_fore, a_done, b_done, fits, result, lossHist, foreHist,
           weightHist, stalled, pred_in, pred_out, pred_fwd, pred_repeat,
           last_batch>>

Configs == [n_epochs : 0..MaxEpochs, batch_size : 1..MaxBatch,
            early_stop : 1..MaxEarlyStop, steps : 1..MaxSteps]

\* A configuration that is held fixed where the trainer does not act.
DefaultConfig == [n_epochs |-> 1, batch_size |-> 1, early_stop |-> 1, steps |-> 1]

\* No mini-batch is being processed: the locals of train_epoch do not exist.
NoBatch == [init_pred |-> <<>>, pred |-> <<>>, weight_feature |-> <<>>]

\* The trainer after __init__ returned.
TrainerInit ==
    /\ cfg \in Configs
    /\ fore = 0 /\ weight = 0 /\ clock = 0
    /\ fore_grad = TRUE /\ weight_grad = TRUE
    /\ fore_training = TRUE /\ weight_training = TRUE
    /\ fitted = FALSE
    /\ ckpt_fore = <<>> /\ ckpt_weight = <<>>
    /\ pc = "idle"
    /\ n_train = 0 /\ n_valid = 0
    /\ epoch = 0 /\ best_loss = Inf /\ best_epoch = 0 /\ stop_round = 0
    /\ val_loss = NaN
    /\ init_fore = 0 /\ a_done = 0 /\ b_done = 0
    /\ fits = 0 /\ result = "none"
    /\ lossHist = <<>> /\ foreHist = <<>> /\ weightHist = <<>>
    /\ stalled = FALSE
    /\ pred_in = 0 /\ pred_out = <<>> /\ pred_fwd = 0 /\ pred_repeat = FALSE
    /\ last_batch = NoBatch

\* A Phase A pass that also takes the trailing partial batch.
NumABatchesCeil == (n_train + cfg.batch_size - 1) \div cfg.batch_size

\* Number of optimizer steps of one Phase A pass, and of Phase B.
NumABatches == Len(PhaseABatches(n_train, cfg.batch_size))

NumBBatches == Len(PhaseBBatches(n_valid, cfg.batch_size))

\* The parameters each optimizer was built over (its param groups).
ForeOptimizerParams == {"fore"}
WeightOptimizerParams == {"weight"}

\* Phase A without the freeze of the Weight Network.
PhaseAGradBoth == [fore |-> TRUE, weight |-> TRUE]

\* requires_grad of the two networks as train_epoch sets it for each phase.
PhaseAGrad == [fore |-> TRUE, weight |-> FALSE]
PhaseBGrad == [fore |-> FALSE, weight |-> TRUE]

\* zero_grad, backward, clip, step on optimizer `opt`: a network's parameters
\* change when the optimizer holds them and backward gave them a gradient.
StepFore(opt) == IF "fore" \in opt /\ fore_grad THEN clock + 1 ELSE fore
StepWeight(opt) == IF "weight" \in opt /\ weight_grad THEN clock + 1 ELSE weight

\* The same step seen from init_fore_model: its parameters are tensors of
\* their own, which no optimizer was built over.
StepReference(opt) == IF "init_fore" \in opt THEN clock + 1 ELSE init_fore

\* No snapshot taken: the reference of the call before is used again.
KeepReference(params) == init_fore

\* copy.deepcopy of a network: new tensors with the same values.
DeepCopy(params) == params

\* The weight-network input built from the live prediction.
WeightFeatureFromLive(init_pred, pred) == pred

\* Phase A: the prediction that dis and the last column of weight_feature
\* are computed from.
WeightFeatureA(init_pred, pred) == init_pred

\* Phase B: weight_feature is computed from pred, the only prediction there.
WeightFeatureB(pred) == pred

\* val_loss < best_loss
Improves(v, best) == Less(v, best)

\* The break taken one epoch late.
ShouldStopLate(sr) == sr > cfg.early_stop

\* stop_round >= self.early_stop
ShouldStop(sr) == sr >= cfg.early_stop

Last(s) == s[Len(s)]

\* What test_epoch can return on the validation split: nan when not one full
\* batch fits; the same loss again when the Forecast Network has not changed
\* since the last evaluation (evaluation mode is deterministic).
TestEpochLoss ==
    IF TestBatches(n_valid, cfg.batch_size) = <<>> THEN {NaN}
    ELSE IF lossHist # <<>> /\ Last(foreHist) = fore THEN {Last(lossHist)}
    ELSE 0..MaxLoss

\* What stays as it is while fit runs.
FitFrame ==
    UNCHANGED <<cfg, fits, pred_in, pred_out, pred_fwd, pred_repeat, n_train,
                n_valid>>

\* fit, up to the epoch loop.  A save_path of None gives a new location; a
\* save_path given again names the files of the earlier fit.
FitStart(nt, nv, reuse) ==
    /\ pc = "idle" /\ fits < MaxFits
    /\ fits' = fits + 1
    /\ n_train' = nt /\ n_valid' = nv
    /\ ckpt_fore' = IF reuse THEN ckpt_fore ELSE <<>>
    /\ ckpt_weight' = IF reuse THEN ckpt_weight ELSE <<>>
    /\ best_loss' = Inf /\ best_epoch' = 0 /\ stop_round' = 0
    /\ epoch' = 0 /\ val_loss' = NaN
    /\ lossHist' = <<>> /\ foreHist' = <<>> /\ weightHist' = <<>>
    /\ stalled' = FALSE
    /\ a_done' = 0 /\ b_done' = 0
    /\ result' = "running"
    /\ pc' = IF cfg.n_epochs = 0 THEN "reload" ELSE "train"
    /\ pred_in' = 0 /\ pred_out' = <<>> /\ pred_fwd' = 0 /\ pred_repeat' = FALSE
    /\ UNCHANGED <<cfg, fore, weight, clock, fore_grad, weight_grad,
                   fore_training, weight_training, fitted, init_fore,
                   last_batch>>

\* train_epoch, up to the first batch of Phase A.
TrainEpochBegin ==
    /\ pc = "train"
    /\ init_fore' = DeepCopy(fore)
    /\ fore_training' = TRUE /\ weight_training' = TRUE
    /\ fore_grad' = PhaseAGrad.fore /\ weight_grad' = PhaseAGrad.weight
    /\ a_done' = 0 /\ b_done' = 0
    /\ pc' = "phaseA"
    /\ FitFrame
    /\ UNCHANGED <<fore, weight, clock, fitted, ckpt_fore, ckpt_weight, epoch,
                   best_loss, best_epoch, stop_round, val_loss, result,
                   lossHist, foreHist, weightHist, stalled, last_batch>>

\* One mini-batch of Phase A: the two forward passes, the weight-network
\* input, and a step of the forecast optimizer.
PhaseAStep ==
    /\ pc = "phaseA"
    /\ a_done < cfg.steps * NumABatches
    /\ last_batch' = [init_pred |-> <<init_fore>>, pred |-> <<fore>>,
                      weight_feature |-> <<WeightFeatureA(init_fore, fore)>>]
    /\ fore' = StepFore(ForeOptimizerParams)
    /\ weight' = StepWeight(ForeOptimizerParams)
    /\ init_fore' = StepReference(ForeOptimizerParams)
    /\ clock' = clock + 1
    /\ a_done' = a_done + 1
    /\ FitFrame
    /\ UNCHANGED <<fore_grad, weight_grad, fore_training, weight_training,
                   fitted, ckpt_fore, ckpt_weight, pc, epoch, best_loss,
                   best_epoch, stop_round, val_loss, b_done, result,
                   lossHist, foreHist, weightHist, stalled>>

\* The passes of Phase A are over: Phase B sets the gradient flags.
PhaseBBegin ==
    /\ pc = "phaseA"
    /\ a_done = cfg.steps * NumABatches
    /\ fore_grad' = PhaseBGrad.fore /\ weight_grad' = PhaseBGrad.weight
    /\ b_done' = 0
    /\ pc' = "phaseB"
    /\ FitFrame
    /\ UNCHANGED <<fore, weight, clock, fore_training, weight_training, fitted,
                   ckpt_fore, ckpt_weight, epoch, best_loss, best_epoch,
                   stop_round, val_loss, init_fore, a_done, result, lossHist,
                   foreHist, weightHist, stalled, last_batch>>

\* One mini-batch of Phase B: the forward pass, the weight-network input, and
\* a step of the weight optimizer.
PhaseBStep ==
    /\ pc = "phaseB"
    /\ b_done < NumBBatches
    /\ last_batch' = [init_pred |-> <<>>, pred |-> <<fore>>,
                      weight_feature |-> <<WeightFeatureB(fore)>>]
    /\ fore' = StepFore(WeightOptimizerParams)
    /\ weight' = StepWeight(WeightOptimizerParams)
    /\ init_fore' = StepReference(WeightOptimizerParams)
    /\ clock' = clock + 1
    /\ b_done' = b_done + 1
    /\ FitFrame
    /\ UNCHANGED <<fore_grad, weight_grad, fore_training, weight_training,
                   fitted, ckpt_fore, ckpt_weight, pc, epoch, best_loss,
                   best_epoch, stop_round, val_loss, a_done, result,
                   lossHist, foreHist, weightHist, stalled>>

\* train_epoch has returned: test_epoch on the validation and the test split.
Evaluate ==
    /\ pc = "phaseB"
    /\ b_done = NumBBatches
    /\ fore_training' = FALSE
    /\ \E v \in TestEpochLoss :
         /\ val_loss' = v
         /\ lossHist' = Append(lossHist, v)
    /\ foreHist' = Append(foreHist, fore)
    /\ weightHist' = Append(weightHist, weight)
    /\ last_batch' = NoBatch
    /\ pc' = "decide"
    /\ FitFrame
    /\ UNCHANGED <<fore, weight, clock, fore_grad, weight_grad,
                   weight_training, fitted, ckpt_fore, ckpt_weight, epoch,
                   best_loss, best_epoch, stop_round, init_fore, a_done,
                   b_done, result, stalled>>

\* A loop that runs one epoch more than n_epochs.
ContinueOneMore ==
    /\ pc' = IF epoch + 1 <= cfg.n_epochs THEN "train" ELSE "reload"
    /\ epoch' = IF epoch + 1 <= cfg.n_epochs THEN epoch + 1 ELSE epoch
    /\ stalled' = FALSE

\* The for loop's next iteration, or its end.
Continue ==
    /\ pc' = IF epoch + 1 < cfg.n_epochs THEN "train" ELSE "reload"
    /\ epoch' = IF epoch + 1 < cfg.n_epochs THEN epoch + 1 ELSE epoch
    /\ stalled' = FALSE

\* The best-state decision of the epoch.
Decide ==
    /\ pc = "decide"
    /\ IF Improves(val_loss, best_loss)
       THEN /\ best_loss' = val_loss
            /\ stop_round' = 0
            /\ best_epoch' = epoch
            /\ ckpt_fore' = <<fore>>
            /\ ckpt_weight' = <<weight>>
            /\ Continue
       ELSE /\ stop_round' = stop_round + 1
            /\ UNCHANGED <<best_loss, best_epoch, ckpt_fore, ckpt_weight>>
            /\ IF ShouldStop(stop_round + 1)
               THEN pc' = "reload" /\ stalled' = TRUE /\ UNCHANGED epoch
               ELSE Continue
    /\ FitFrame
    /\ UNCHANGED <<fore, weight, clock, fore_grad, weight_grad, fore_training,
                   weight_training, fitted, val_loss, init_fore, a_done,
                   b_done, result, lossHist, foreHist, weightHist, last_batch>>

\* After the loop: load both checkpoint files and mark the model fitted.
\* torch.load of a file that does not exist raises.
Reload ==
    /\ pc = "reload"
    /\ pc' = "idle"
    /\ IF ckpt_fore = <<>>
       THEN /\ result' = "fit_nofile"
            /\ UNCHANGED <<fore, weight, fitted>>
       ELSE /\ fore' = ckpt_fore[1]
            /\ IF ckpt_weight = <<>>
               THEN result' = "fit_nofile" /\ UNCHANGED <<weight, fitted>>
               ELSE /\ weight' = ckpt_weight[1]
                    /\ fitted' = TRUE
                    /\ result' = "fit_ok"
    /\ FitFrame
    /\ UNCHANGED <<clock, fore_grad, weight_grad, fore_training,
                   weight_training, ckpt_fore, ckpt_weight, epoch, best_loss,
                   best_epoch, stop_round, val_loss, init_fore, a_done, b_done,
                   lossHist, foreHist, weightHist, stalled, last_batch>>

\* An exception inside train_epoch or test_epoch leaves fit.
FitRaise ==
    /\ pc \in {"train", "phaseA", "phaseB"}
    /\ pc' = "idle"
    /\ result' = "fit_raise"
    /\ last_batch' = NoBatch
    /\ FitFrame
    /\ UNCHANGED <<fore, weight, clock, fore_grad, weight_grad, fore_training,
                   weight_training, fitted, ckpt_fore, ckpt_weight, epoch,
                   best_loss, best_epoch, stop_round, val_loss, init_fore,
                   a_done, b_done, lossHist, foreHist, weightHist, stalled>>

\* torch.save of the second file raises: the first file is already written.
SaveRaise ==
    /\ pc = "decide"
    /\ Improves(val_loss, best_loss)
    /\ best_loss' = val_loss /\ stop_round' = 0 /\ best_epoch' = epoch
    /\ ckpt_fore' = <<fore>>
    /\ pc' = "idle"
    /\ result' = "fit_raise"
    /\ FitFrame
    /\ UNCHANGED <<fore, weight, clock, fore_grad, weight_grad, fore_training,
                   weight_training, fitted, ckpt_weight, epoch, val_loss,
                   init_fore, a_done, b_done, lossHist, foreHist, weightHist,
                   stalled, last_batch>>

\* A forward pass in whatever mode the network is in when predict is called:
\* in training mode the output is not a function of row and parameters alone.
ForwardInMode(params, batch) ==
    [k \in 1..(batch[2] - batch[1]) |->
       <<batch[1] + k - 1, params, fore_training>>]

\* The forward pass of the Forecast Network in evaluation mode over the rows
\* begin..end-1: one output per row, a function of the row and the parameters.
Forward(params, batch) ==
    [k \in 1..(batch[2] - batch[1]) |-> <<batch[1] + k - 1, params>>]

RECURSIVE Concatenate(_)
Concatenate(ss) == IF ss = <<>> THEN <<>> ELSE Head(ss) \o Concatenate(Tail(ss))

\* The list preds of predict: one forward pass per batch.
PredictPreds(params, n, b) ==
    LET batches == PredictBatches(n, b)
    IN [k \in 1..Len(batches) |-> Forward(params, batches[k])]

\* predict without its guard.
PredictNeverRefuses == FALSE

\* The guard of predict.
PredictRefuses == ~fitted

\* predict over a test split of n rows.  np.concatenate of no batches raises.
Predict(n) ==
    /\ pc = "idle"
    /\ pred_in' = n
    /\ pred_repeat' = (result = "pred_ok" /\ pred_in = n)
    /\ IF PredictRefuses
       THEN /\ result' = "pred_not_fitted"
            /\ pred_fwd' = 0
            /\ UNCHANGED <<fore_training, pred_out>>
       ELSE LET preds == PredictPreds(fore, n, cfg.batch_size)
            IN /\ fore_training' = FALSE
               /\ pred_fwd' = Len(preds)
               /\ IF preds = <<>>
                  THEN result' = "pred_empty" /\ UNCHANGED pred_out
                  ELSE result' = "pred_ok" /\ pred_out' = Concatenate(preds)
    /\ UNCHANGED <<cfg, fore, weight, clock, fore_grad, weight_grad,
                   weight_training, fitted, ckpt_fore, ckpt_weight, pc,
                   n_train, n_valid, epoch, best_loss, best_epoch, stop_round,
                   val_loss, init_fore, a_done, b_done, fits, lossHist,
                   foreHist, weightHist, stalled, last_batch>>

\* ---------------------------------------------------------- construction
\* __init__ step by step: what exists of the trainer at each point.
VARIABLES
    ctor_args,       \* the fore_optimizer and weight_optimizer arguments
    ctor_pc,         \* start, networks, fore_opt, weight_opt, done, raised
    obj              \* the attributes set so far

varsC == <<ctor_args, ctor_pc, obj>>

OptimizerKinds == {"adam", "Adam", "ADAM", "gd", "GD", "sgd", "rmsprop"}

\* The kind compared as written.
LowerIdentity(k) == k

\* str.lower() on the optimizer kinds.
Lower(k) ==
    CASE k \in {"adam", "Adam", "ADAM"} -> "adam"
      [] k \in {"gd", "GD"} -> "gd"
      [] OTHER -> k

\* The optimizer class the if/elif chain picks, "none" when it raises.
OptimizerFor(k) ==
    IF Lower(k) = "adam" THEN "Adam"
    ELSE IF Lower(k) = "gd" THEN "SGD"
    ELSE "none"

NoObject == [fore_model |-> FALSE, weight_model |-> FALSE,
             fore_optimizer |-> "none", weight_optimizer |-> "none",
             fitted |-> "unset"]

CtorInit ==
    /\ ctor_args \in [fore_optimizer : OptimizerKinds,
                      weight_optimizer : OptimizerKinds]
    /\ ctor_pc = "start"
    /\ obj = NoObject

\* self.fore_model = GRUModel(...); self.weight_model = MLPModel(...)
CtorNetworks ==
    /\ ctor_pc = "start"
    /\ obj' = [obj EXCEPT !.fore_model = TRUE, !.weight_model = TRUE]
    /\ ctor_pc' = "networks"
    /\ UNCHANGED ctor_args

CtorForeOptimizer ==
    /\ ctor_pc = "networks"
    /\ IF OptimizerFor(ctor_args.fore_optimizer) = "none"
       THEN ctor_pc' = "raised" /\ UNCHANGED obj
       ELSE /\ obj' = [obj EXCEPT !.fore_optimizer =
                                     OptimizerFor(ctor_args.fore_optimizer)]
            /\ ctor_pc' = "fore_opt"
    /\ UNCHANGED ctor_args

CtorWeightOptimizer ==
    /\ ctor_pc = "fore_opt"
    /\ IF OptimizerFor(ctor_args.weight_optimizer) = "none"
       THEN ctor_pc' = "raised" /\ UNCHANGED obj
       ELSE /\ obj' = [obj EXCEPT !.weight_optimizer =
                                     OptimizerFor(ctor_args.weight_optimizer)]
            /\ ctor_pc' = "weight_opt"
    /\ UNCHANGED ctor_args

\* self.fitted = False, and the trainer is returned.
CtorFinish ==
    /\ ctor_pc = "weight_opt"
    /\ obj' = [obj EXCEPT !.fitted = "False"]
    /\ ctor_pc' = "done"
    /\ UNCHANGED ctor_args

\* A trainer built with the default optimizer kinds.
CtorDone ==
    /\ ctor_args = [fore_optimizer |-> "adam", weight_optimizer |-> "adam"]
    /\ ctor_pc = "done"
    /\ obj = [fore_model |-> TRUE, weight_model |-> TRUE,
              fore_optimizer |-> "Adam", weight_optimizer |-> "Adam",
              fitted |-> "False"]

\* ------------------------------------------------------- one pass alone
\* One pass of each batch loop over bt_rows rows in batches of bt_size.
MaxPassRows == 9
MaxPassBatch == 4

VARIABLES
    bt_rows, bt_size,
    bt_pass,         \* the loop that ran last: none, phaseA, phaseB, test, predict
    bt_batches,      \* the batches <<begin, end>> it processed
    bt_out,          \* predict: the rows of the returned series, in order
    bt_raised        \* predict: np.concatenate raised

varsB == <<bt_rows, bt_size, bt_pass, bt_batches, bt_out, bt_raised>>

BatchInit ==
    /\ bt_rows \in 0..MaxPassRows
    /\ bt_size \in 1..MaxPassBatch
    /\ bt_pass = "none"
    /\ bt_batches = <<>>
    /\ bt_out = <<>>
    /\ bt_raised = FALSE

RunPass(which, batches) ==
    /\ bt_pass' = which
    /\ bt_batches' = batches
    /\ bt_out' = <<>>
    /\ bt_raised' = FALSE
    /\ UNCHANGED <<bt_rows, bt_size>>

RunPhaseA == RunPass("phaseA", PhaseABatches(bt_rows, bt_size))

RunPhaseB == RunPass("phaseB", PhaseBBatches(bt_rows, bt_size))

RunTestEpoch == RunPass("test", TestBatches(bt_rows, bt_size))

RunPredict ==
    LET preds == PredictPreds(0, bt_rows, bt_size)
    IN /\ bt_pass' = "predict"
       /\ bt_batches' = PredictBatches(bt_rows, bt_size)
       /\ bt_raised' = (preds = <<>>)
       /\ bt_out' = IF preds = <<>> THEN <<>>
                    ELSE [k \in 1..Len(Concatenate(preds)) |->
                            Concatenate(preds)[k][1]]
       /\ UNCHANGED <<bt_rows, bt_size>>

BatchParked ==
    /\ bt_rows = 0 /\ bt_size = 1 /\ bt_pass = "none"
    /\ bt_batches = <<>> /\ bt_out = <<>> /\ bt_raised = FALSE

\* ------------------------------------------------------------ online tool
\* OnlineToolR over a recorder store.  The tool manages the recorders of its
\* experiment; the store also holds a recorder of another experiment.
MaxStepLen == 2

ExpRecorders == {"r1", "r2"}
Recorders == ExpRecorders \cup {"x1"}

ONLINE_TAG == "online"
OFFLINE_TAG == "offline"

VARIABLES
    tags,            \* per recorder, its online_status tag, or "unset"
    tasks,           \* per recorder, the dataset part of its saved task
    o_pc,            \* idle, or busy inside set_online_tag
    o_op,            \* the last call: none, set, reset, update
    o_calls,         \* set_online_tag calls still to run: <<tag, recorders left>>
    o_targets,       \* the recorders given to the last set / reset call
    o_old,           \* online_models() when the last reset began
    o_result,        \* none, running, ok, raise
    upd_runs         \* per recorder, the hist_ref of each PredUpdater run of
                     \* the last update_online_pred

varsO == <<tags, tasks, o_pc, o_op, o_calls, o_targets, o_old, o_result,
           upd_runs>>

\* task["dataset"]: its class, and kwargs["step_len"] where the kwargs have one.
Tasks ==
    {[class |-> "DatasetH", step_len |-> <<>>]} \cup
    {[class |-> "TSDatasetH", step_len |-> <<k>>] : k \in 1..MaxStepLen}

NoRuns == [r \in Recorders |-> <<>>]

OnlineInit ==
    /\ tags = [r \in Recorders |-> "unset"]
    /\ tasks \in [Recorders -> Tasks]
    /\ o_pc = "idle" /\ o_op = "none" /\ o_calls = <<>>
    /\ o_targets = {} /\ o_old = {} /\ o_result = "none"
    /\ upd_runs = NoRuns

OnlineParked ==
    /\ OnlineInit
    /\ tasks = [r \in Recorders |-> [class |-> "DatasetH", step_len |-> <<>>]]

\* A lookup that takes a recorder without the tag for an online one.
GetOnlineTagDefaultOnline(r) == IF tags[r] = "unset" THEN ONLINE_TAG ELSE tags[r]

\* tags.get(ONLINE_KEY, OFFLINE_TAG)
GetOnlineTag(r) == IF tags[r] = "unset" THEN OFFLINE_TAG ELSE tags[r]

\* list_recorders(exp_name, filter) keeps the experiment's recorders that pass.
OnlineModels == {r \in ExpRecorders : GetOnlineTag(r) = ONLINE_TAG}

\* The two calls of reset_online_tag in the other order.
ResetCallsSwapped(targets) ==
    <<<<ONLINE_TAG, targets>>, <<OFFLINE_TAG, ExpRecorders>>>>

\* The calls reset_online_tag makes, in order.
ResetCalls(targets) == <<<<OFFLINE_TAG, ExpRecorders>>, <<ONLINE_TAG, targets>>>>

\* hist_ref without the treatment of TSDatasetH.
HistRefZero(task) == 0

\* hist_ref of a recorder's task.
HistRef(task) == IF task.class = "TSDatasetH" THEN task.step_len[1] ELSE 0

\* set_online_tag(tag, recs) is called.
SetOnlineTagCall(tag, recs) ==
    /\ o_pc = "idle"
    /\ o_pc' = "busy" /\ o_op' = "set" /\ o_result' = "running"
    /\ o_calls' = <<<<tag, recs>>>>
    /\ o_targets' = recs /\ o_old' = OnlineModels
    /\ upd_runs' = NoRuns
    /\ UNCHANGED <<tags, tasks>>

\* reset_online_tag(targets) is called.
ResetOnlineTagCall(targets) ==
    /\ o_pc = "idle"
    /\ o_pc' = "busy" /\ o_op' = "reset" /\ o_result' = "running"
    /\ o_calls' = ResetCalls(targets)
    /\ o_targets' = targets /\ o_old' = OnlineModels
    /\ upd_runs' = NoRuns
    /\ UNCHANGED <<tags, tasks>>

\* One rec.set_tags of the running set_online_tag loop.
SetTagsStep ==
    /\ o_pc = "busy" /\ o_calls # <<>>
    /\ \E r \in Head(o_calls)[2] :
         /\ tags' = [tags EXCEPT ![r] = Head(o_calls)[1]]
         /\ o_calls' = <<<<Head(o_calls)[1], Head(o_calls)[2] \ {r}>>>>
                         \o Tail(o_calls)
    /\ UNCHANGED <<tasks, o_pc, o_op, o_targets, o_old, o_result, upd_runs>>

\* The running set_online_tag loop is over; after the last one the call returns.
SetTagsReturn ==
    /\ o_pc = "busy" /\ o_calls # <<>>
    /\ Head(o_calls)[2] = {}
    /\ o_calls' = Tail(o_calls)
    /\ o_pc' = IF Tail(o_calls) = <<>> THEN "idle" ELSE "busy"
    /\ o_result' = IF Tail(o_calls) = <<>> THEN "ok" ELSE "running"
    /\ UNCHANGED <<tags, tasks, o_op, o_targets, o_old, upd_runs>>

\* rec.set_tags raises: the call ends where it is.
SetTagsRaise ==
    /\ o_pc = "busy" /\ o_calls # <<>>
    /\ Head(o_calls)[2] # {}
    /\ o_calls' = <<>>
    /\ o_pc' = "idle" /\ o_result' = "raise"
    /\ UNCHANGED <<tags, tasks, o_op, o_targets, o_old, upd_runs>>

\* update_online_pred(to_date): one PredUpdater run per online model.
UpdateOnlinePred ==
    /\ o_pc = "idle"
    /\ o_op' = "update" /\ o_result' = "ok"
    /\ upd_runs' = [r \in Recorders |->
                      IF r \in OnlineModels THEN <<HistRef(tasks[r])>> ELSE <<>>]
    /\ o_targets' = {} /\ o_old' = OnlineModels
    /\ UNCHANGED <<tags, tasks, o_pc, o_calls>>

\* update_online_pred where a PredUpdater run raises: the models in `done`
\* were updated before it.
UpdateRaise(done) ==
    /\ o_pc = "idle"
    /\ done \subseteq OnlineModels /\ done # OnlineModels
    /\ o_op' = "update" /\ o_result' = "raise"
    /\ upd_runs' = [r \in Recorders |->
                      IF r \in done THEN <<HistRef(tasks[r])>> ELSE <<>>]
    /\ o_targets' = {} /\ o_old' = OnlineModels
    /\ UNCHANGED <<tags, tasks, o_pc, o_calls>>

\* ------------------------------------------------- one mini-batch step
\* The four statements that end a mini-batch of either phase: zero_grad,
\* backward, clip_grad_value_, step.  Each network's gradient is followed
\* through one component (the clip is elementwise); <<>> is a .grad of None.
MaxGrad == 4

\* The clip value of both clip_grad_value_ calls.
ClipBound == 3

Nets == {"fore", "weight"}

VARIABLES
    g_phase,         \* the phase train_epoch is in: A or B
    g_pc,            \* forward, zeroed, backward, clipped
    g_req,           \* requires_grad of each network
    g_grad,          \* .grad of each network
    g_used           \* the gradient the last optimizer step applied

varsG == <<g_phase, g_pc, g_req, g_grad, g_used>>

\* train_epoch has set the flags of Phase A; no backward pass has run yet.
ClipInit ==
    /\ g_phase = "A" /\ g_pc = "forward"
    /\ g_req = PhaseAGrad
    /\ g_grad = [n \in Nets |-> <<>>]
    /\ g_used = <<>>

\* The optimizer stepped in each phase, and the parameters it holds.
PhaseOptimizer(phase) ==
    IF phase = "A" THEN ForeOptimizerParams ELSE WeightOptimizerParams

\* The network whose parameters each clip_grad_value_ call is given.
ClipParams(phase) == IF phase = "A" THEN {"fore"} ELSE {"weight"}

\* The networks the loss of each phase depends on differentiably: in Phase A
\* the weights enter the loss only through argmax; in Phase B the prediction
\* enters both the validation loss and the weight-network input.
LossGraph(phase) == IF phase = "A" THEN {"fore"} ELSE {"fore", "weight"}

\* A clamp that bounds the gradient from above only.
ClampUpper(g) == IF g > ClipBound THEN ClipBound ELSE g

\* Tensor.clamp_(min=-clip_value, max=clip_value)
Clamp(g) ==
    IF g > ClipBound THEN ClipBound
    ELSE IF g < -ClipBound THEN -ClipBound ELSE g

\* optimizer.zero_grad(): None stays None; a gradient becomes zero or, where
\* the library sets gradients to None, None.
ZeroGrad ==
    /\ g_pc = "forward"
    /\ \E z \in {<<>>, <<0>>} :
         g_grad' = [n \in Nets |->
                      IF n \in PhaseOptimizer(g_phase) /\ g_grad[n] # <<>>
                      THEN z ELSE g_grad[n]]
    /\ g_pc' = "zeroed"
    /\ UNCHANGED <<g_phase, g_req, g_used>>

\* loss.backward(): every network on the graph that requires gradients has
\* the new gradient added to its .grad.
Backward(g) ==
    /\ g_pc = "zeroed"
    /\ g_grad' = [n \in Nets |->
                    IF n \in LossGraph(g_phase) /\ g_req[n]
                    THEN (IF g_grad[n] = <<>> THEN <<g>> ELSE <<g_grad[n][1] + g>>)
                    ELSE g_grad[n]]
    /\ g_pc' = "backward"
    /\ UNCHANGED <<g_phase, g_req, g_used>>

\* torch.nn.utils.clip_grad_value_(network.parameters(), 3.0)
ClipGradValue ==
    /\ g_pc = "backward"
    /\ g_grad' = [n \in Nets |->
                    IF n \in ClipParams(g_phase) /\ g_grad[n] # <<>>
                    THEN <<Clamp(g_grad[n][1])>> ELSE g_grad[n]]
    /\ g_pc' = "clipped"
    /\ UNCHANGED <<g_phase, g_req, g_used>>

\* optimizer.step(): the optimizer applies the gradients of its parameters.
OptimizerStep ==
    /\ g_pc = "clipped"
    /\ \E n \in PhaseOptimizer(g_phase) : g_used' = g_grad[n]
    /\ g_pc' = "forward"
    /\ UNCHANGED <<g_phase, g_req, g_grad>>

\* The passes of Phase A are over: the flags of Phase B are set.
EnterPhaseB ==
    /\ g_phase = "A" /\ g_pc = "forward"
    /\ g_phase' = "B"
    /\ g_req' = PhaseBGrad
    /\ UNCHANGED <<g_pc, g_grad, g_used>>

\* The next train_epoch call: the flags of Phase A are set.
EnterPhaseA ==
    /\ g_phase = "B" /\ g_pc = "forward"
    /\ g_phase' = "A"
    /\ g_req' = PhaseAGrad
    /\ UNCHANGED <<g_pc, g_grad, g_used>>

\* ------------------------------------------------------- specifications
vars == <<varsT, varsC, varsB, varsO, varsG>>

\* The trainer: fit and predict calls on one constructed trainer.
Init == TrainerInit /\ CtorDone /\ BatchParked /\ OnlineParked /\ ClipInit

Next ==
    \/ (\E nt \in 0..MaxRows, nv \in 0..MaxRows, reuse \in BOOLEAN :
          FitStart(nt, nv, reuse)) /\ UNCHANGED <<varsC, varsB, varsO, varsG>>
    \/ TrainEpochBegin /\ UNCHANGED <<varsC, varsB, varsO, varsG>>
    \/ PhaseAStep /\ UNCHANGED <<varsC, varsB, varsO, varsG>>
    \/ PhaseBBegin /\ UNCHANGED <<varsC, varsB, varsO, varsG>>
    \/ PhaseBStep /\ UNCHANGED <<varsC, varsB, varsO, varsG>>
    \/ Evaluate /\ UNCHANGED <<varsC, varsB, varsO, varsG>>
    \/ Decide /\ UNCHANGED <<varsC, varsB, varsO, varsG>>
    \/ Reload /\ UNCHANGED <<varsC, varsB, varsO, varsG>>
    \/ FitRaise /\ UNCHANGED <<varsC, varsB, varsO, varsG>>
    \/ SaveRaise /\ UNCHANGED <<varsC, varsB, varsO, varsG>>
    \/ (\E n \in 0..MaxRows : Predict(n)) /\ UNCHANGED <<varsC, varsB, varsO, varsG>>

Spec == Init /\ [][Next]_vars

\* A fit that is running takes its next step: the statements of fit and
\* train_epoch run one after the other, and each of them returns.
FitProgress ==
    (TrainEpochBegin \/ PhaseAStep \/ PhaseBBegin \/ PhaseBStep \/ Evaluate
       \/ Decide \/ Reload) /\ UNCHANGED <<varsC, varsB, varsO, varsG>>

SpecFair == Spec /\ WF_vars(FitProgress)

\* ------------------------------------------------------------ properties
\* What a validation loss sequence says by itself, without the trainer's
\* counters.
FiniteLosses(h) == {h[k] : k \in 1..Len(h)} \ {NaN}

HasMinimum(h) == FiniteLosses(h) # {}

MinimumOf(h) == CHOOSE v \in FiniteLosses(h) : \A w \in FiniteLosses(h) : v <= w

\* The first epoch (counted from 1) at which the sequence is at its minimum.
MinEpoch(h) ==
    CHOOSE k \in 1..Len(h) :
        /\ h[k] = MinimumOf(h)
        /\ \A j \in 1..(k - 1) : h[j] # MinimumOf(h)

\* The epochs that came after the minimum without improving on it.
EpochsAfterMin(h) == Len(h) - MinEpoch(h)

InEpoch == pc \in {"train", "phaseA", "phaseB"}

\* C1: once the validation losses of a fit have gone early_stop epochs past
\* their minimum without improving, no further epoch is trained (so no
\* shorter prefix of the losses had already stalled that long), and a fit that
\* ends this way leaves both networks with the parameters they had at the end
\* of the minimum-loss epoch.
C1_EarlyStop ==
    /\ \A k \in 1..Len(lossHist) :
         LET h == SubSeq(lossHist, 1, k)
         IN HasMinimum(h) /\ EpochsAfterMin(h) >= cfg.early_stop
              => k = Len(lossHist) /\ ~InEpoch
    /\ ( /\ result = "fit_ok"
         /\ HasMinimum(lossHist)
         /\ EpochsAfterMin(lossHist) = cfg.early_stop )
       => /\ fore = foreHist[MinEpoch(lossHist)]
          /\ weight = weightHist[MinEpoch(lossHist)]

\* A fit stopped early with epochs of its budget left, and the restored
\* parameters are not those of the last epoch trained.
C1_Witness ==
    /\ result = "fit_ok"
    /\ HasMinimum(lossHist)
    /\ EpochsAfterMin(lossHist) = cfg.early_stop
    /\ Len(lossHist) < cfg.n_epochs
    /\ fore # Last(foreHist)
    /\ weight # Last(weightHist)

\* C2: every fit whose epoch loop has ended (by exhaustion or by early stop)
\* ends with both networks holding the parameters of the end of epoch
\* best_epoch of this fit, and with the model marked fitted.
C2_ReloadBest ==
    (pc = "idle" /\ result \in {"fit_ok", "fit_nofile"} /\ lossHist # <<>>)
      => /\ fitted
         /\ fore = foreHist[best_epoch + 1]
         /\ weight = weightHist[best_epoch + 1]

\* C3: at the end of every epoch (after its best-state decision) the best
\* loss is the lowest loss seen so far, the recorded epoch is the first epoch
\* that reached it, the stall counter counts the epochs since then, and the
\* two checkpoint files hold the parameters both networks had at the end of
\* that recorded epoch.
C3_BestState ==
    (lossHist # <<>> /\ pc \in {"train", "reload"})
      => /\ best_loss = IF HasMinimum(lossHist) THEN MinimumOf(lossHist) ELSE Inf
         /\ HasMinimum(lossHist) => best_epoch + 1 = MinEpoch(lossHist)
         /\ HasMinimum(lossHist) => stop_round = EpochsAfterMin(lossHist)
         /\ ckpt_fore = <<foreHist[best_epoch + 1]>>
         /\ ckpt_weight = <<weightHist[best_epoch + 1]>>

\* The trainer's own state: everything but the record of the last call.
TrainerState ==
    <<cfg, fore, weight, fore_grad, weight_grad, fore_training,
      weight_training, fitted, ckpt_fore, ckpt_weight>>

\* C5: a predict call on a trainer whose fitted flag is unset ends with the
\* invalid-state error, runs no forward pass and changes nothing of the
\* trainer.
C5_PredictBeforeFit ==
    [][\A n \in 0..MaxRows :
         (Predict(n) /\ ~fitted)
           => /\ result' = "pred_not_fitted"
              /\ pred_fwd' = 0
              /\ UNCHANGED TrainerState]_vars

\* predict was refused after a fit that took optimizer steps and did not
\* complete.
C5_Witness ==
    /\ result = "pred_not_fitted"
    /\ ~fitted
    /\ fits >= 1
    /\ clock >= 1

\* C6: while either phase runs, exactly the network the phase trains has
\* gradients enabled; no step of Phase A changes the Weight Network and no
\* step of Phase B changes the Forecast Network.
C6_OneTrainable ==
    /\ [](pc = "phaseA" => fore_grad /\ ~weight_grad)
    /\ [](pc = "phaseB" => weight_grad /\ ~fore_grad)
    /\ [][pc = "phaseA" /\ pc' \in {"phaseA", "phaseB"}
            => weight' = weight]_vars
    /\ [][pc = "phaseB" /\ pc' \in {"phaseB", "decide"}
            => fore' = fore]_vars
    /\ [][pc = "phaseA" /\ pc' = "phaseA" => fore' # fore]_vars
    /\ [][pc = "phaseB" /\ pc' = "phaseB" => weight' # weight]_vars

\* Both phases of one epoch have taken optimizer steps.
C6_Witness == pc = "phaseB" /\ a_done >= 1 /\ b_done >= 1

C11_ReferenceFrozen ==
    /\ [][init_fore' # init_fore => pc = "train" /\ pc' = "phaseA"]_vars
    /\ [][pc = "train" /\ pc' = "phaseA"
            => init_fore' = fore /\ fore' = fore]_vars
    /\ [][pc = "phaseA" /\ pc' = "phaseA"
            => /\ init_fore' = init_fore
               /\ fore' # fore
               /\ fore' # init_fore']_vars
    /\ [](pc = "phaseA" /\ a_done = 0 => init_fore = fore)
    /\ [](pc = "phaseA" /\ a_done > 0 => init_fore # fore)

\* In a later epoch, after two Phase A steps, the reference still holds the
\* parameters the epoch began with, which earlier training had produced.
C11_Witness ==
    /\ pc = "phaseA" /\ epoch >= 1 /\ a_done >= 2
    /\ init_fore # 0 /\ init_fore = Last(foreHist)
    /\ fore # init_fore

\* C12: in every epoch Phase A takes exactly steps * floor(N_train /
\* batch_size) forecast-optimizer updates, all before the first Phase B
\* update; Phase B then takes exactly floor(N_valid / batch_size)
\* weight-optimizer updates; the evaluation runs only after Phase B has
\* finished, and the next epoch starts only after the evaluation and the
\* best-state decision.
C12_PhaseOrder ==
    /\ [](pc = "phaseA"
            => /\ b_done = 0
               /\ a_done <= cfg.steps * (n_train \div cfg.batch_size))
    /\ [](pc \in {"phaseB", "decide"}
            => a_done = cfg.steps * (n_train \div cfg.batch_size))
    /\ [](pc = "phaseB" => b_done <= n_valid \div cfg.batch_size)
    /\ [](pc = "decide" => b_done = n_valid \div cfg.batch_size)
    /\ [][a_done' = a_done + 1
            => pc = "phaseA" /\ fore' # fore /\ weight' = weight]_vars
    /\ [][b_done' = b_done + 1
            => pc = "phaseB" /\ weight' # weight /\ fore' = fore]_vars
    /\ [][pc' # pc /\ pc' = "phaseA" => pc = "train"]_vars
    /\ [][pc' # pc /\ pc' = "phaseB" => pc = "phaseA"]_vars
    /\ [][Len(lossHist') = Len(lossHist) + 1
            => pc = "phaseB" /\ pc' = "decide"]_vars
    /\ [][pc' # pc /\ pc' = "decide" => pc = "phaseB"]_vars
    /\ [][pc' # pc /\ pc' = "train" => pc \in {"idle", "decide"}]_vars
    /\ [][epoch' = epoch + 1 => pc = "decide" /\ pc' = "train"]_vars

\* A later epoch came to its decision after two full passes of Phase A over
\* two batches and one pass of Phase B over one batch.
C12_Witness ==
    /\ pc = "decide" /\ epoch >= 1
    /\ cfg.steps = 2 /\ a_done = 4 /\ b_done = 1

\* C13 as stated: in every Phase A mini-batch a reference and a live
\* prediction are computed and the Weight Network's input is built from the
\* live prediction.
C13_WeightInputLive ==
    (pc = "phaseA" /\ a_done >= 1)
      => /\ last_batch.init_pred # <<>>
         /\ last_batch.pred # <<>>
         /\ last_batch.weight_feature = last_batch.pred

\* C13, amended: in every Phase A mini-batch a reference and a live
\* prediction are computed and the Weight Network's input is built from the
\* prediction of the reference Forecast Network, the snapshot taken at the
\* start of the call; in Phase B it is built from the live prediction.
C13_WeightInputReference ==
    /\ [][a_done' = a_done + 1
            => last_batch' = [init_pred |-> <<init_fore>>,
                              pred |-> <<fore>>,
                              weight_feature |-> <<init_fore>>]]_vars
    /\ [][b_done' = b_done + 1
            => last_batch' = [init_pred |-> <<>>,
                              pred |-> <<fore>>,
                              weight_feature |-> <<fore>>]]_vars
    /\ [](pc = "phaseA" /\ a_done >= 1
            => /\ last_batch.init_pred = <<init_fore>>
               /\ last_batch.pred # <<>>
               /\ last_batch.weight_feature = last_batch.init_pred)

\* A Phase A mini-batch whose reference and live predictions come from
\* different parameters built the Weight Network's input from the reference.
C13_Witness ==
    /\ pc = "phaseA" /\ a_done >= 2
    /\ last_batch.pred # last_batch.init_pred
    /\ last_batch.weight_feature = last_batch.init_pred

\* C15: whenever the fitted flag is set and a call can be made, the Forecast
\* Network holds the parameters of the minimum-loss epoch of the fit that was
\* started last (stated for a fit whose last epoch took a Phase A step, so
\* that training has moved the parameters).
C15_FittedMeansRestored ==
    (pc = "idle" /\ fitted /\ a_done > 0)
      => /\ HasMinimum(lossHist)
         /\ fore = foreHist[MinEpoch(lossHist)]

\* The epochs at which a loss sequence improved on everything before it.
ImprovementEpochs(h) ==
    {k \in 1..Len(h) :
       /\ h[k] # NaN
       /\ \A j \in 1..(k - 1) : h[j] = NaN \/ h[k] < h[j]}

\* The epochs executed after the last improvement (all of them if none).
EpochsSinceImprovement(h) ==
    IF ImprovementEpochs(h) = {} THEN Len(h)
    ELSE Len(h) - (CHOOSE k \in ImprovementEpochs(h) :
                     \A j \in ImprovementEpochs(h) : j <= k)

\* The counters of the epoch loop against the loss sequence.
LoopBounded ==
    /\ Len(lossHist) <= cfg.n_epochs
    /\ InEpoch => epoch < cfg.n_epochs /\ Len(lossHist) = epoch
    /\ pc = "train" => 0 <= stop_round /\ stop_round < cfg.early_stop
    /\ stop_round <= cfg.early_stop
    /\ pc # "decide" => stop_round = EpochsSinceImprovement(lossHist)
    /\ pc = "decide" => EpochsSinceImprovement(lossHist) <= cfg.early_stop

\* C16: a fit executes at most n_epochs epochs whatever the validation
\* losses are, and every fit that was started comes to its end; at the start
\* of every epoch the stall counter is at least 0 and below early_stop; the
\* epochs executed after the last improvement are never more than early_stop.
C16_LoopTerminates ==
    /\ []LoopBounded
    /\ (pc # "idle") ~> (pc = "idle")

\* The loop broke on the stall counter with epochs of the budget left, after
\* a loss that had improved.
C16_Witness ==
    /\ pc = "reload" /\ stalled
    /\ HasMinimum(lossHist)
    /\ stop_round = cfg.early_stop
    /\ Len(lossHist) < cfg.n_epochs

\* The kinds the constructor accepts, spelled out.
SupportedKinds == {"adam", "Adam", "ADAM", "gd", "GD"}

CtorEnded == ctor_pc \in {"done", "raised"}

\* C4 as stated: with a forecast or weight optimizer kind outside
\* {"adam", "gd"} construction fails, and when it fails neither network and
\* neither optimizer has been created.
C4_FailsBeforeAllocation ==
    /\ ctor_pc = "done"
         => /\ ctor_args.fore_optimizer \in {"adam", "gd"}
            /\ ctor_args.weight_optimizer \in {"adam", "gd"}
    /\ ctor_pc = "raised" => obj = NoObject

\* C4, amended: construction fails exactly when the forecast or the weight
\* optimizer kind, compared without regard to case, is neither adam nor gd;
\* when it fails the fitted flag has not been set and no optimizer exists for
\* the unsupported kind, but both networks have been allocated, and the
\* forecast optimizer exists when only the weight kind is unsupported.
C4_FailsAfterAllocation ==
    /\ CtorEnded
         => (ctor_pc = "raised"
               <=> \/ ctor_args.fore_optimizer \notin SupportedKinds
                   \/ ctor_args.weight_optimizer \notin SupportedKinds)
    /\ ctor_pc = "raised"
         => /\ obj.fitted = "unset"
            /\ obj.fore_model /\ obj.weight_model
            /\ obj.weight_optimizer = "none"
            /\ obj.fore_optimizer = "none"
                 <=> ctor_args.fore_optimizer \notin SupportedKinds

\* Construction failed on the weight optimizer kind, after the forecast
\* optimizer was built from a kind written in capitals.
C4_Witness ==
    /\ ctor_pc = "raised"
    /\ ctor_args.fore_optimizer = "ADAM"
    /\ ctor_args.weight_optimizer = "sgd"
    /\ obj.fore_optimizer = "Adam"

\* Rounded-up quotient.
CeilDiv(n, b) == (n + b - 1) \div b

Min(a, b) == IF a < b THEN a ELSE b

\* C7: a training or evaluation pass over N rows processes floor(N/B) batches
\* of exactly B rows, the first floor(N/B)*B rows in order, and so drops the
\* last N mod B rows; predict processes ceil(N/B) batches that cover every
\* row once and in order, at most one batch more than the other passes, and
\* returns one output per input row, in the input's order.
C7_TrailingBatch ==
    /\ bt_pass \in {"phaseA", "phaseB", "test"}
         => /\ Len(bt_batches) = bt_rows \div bt_size
            /\ \A k \in 1..Len(bt_batches) :
                 bt_batches[k] = <<(k - 1) * bt_size, k * bt_size>>
    /\ bt_pass = "predict"
         => /\ Len(bt_batches) = CeilDiv(bt_rows, bt_size)
            /\ Len(bt_batches) - (bt_rows \div bt_size) \in {0, 1}
            /\ \A k \in 1..Len(bt_batches) :
                 bt_batches[k] =
                   <<(k - 1) * bt_size, Min(k * bt_size, bt_rows)>>
            /\ ~bt_raised
            /\ bt_out = [k \in 1..bt_rows |-> k - 1]

\* C8 as stated: after reset_online_tag returns, exactly the targets are
\* online in the experiment and online_models() returns them; while it runs,
\* and after it failed part-way, the online models are those of before the
\* call or the targets, never a state in between.
C8_ResetAtomic ==
    (o_op = "reset" /\ o_targets \subseteq ExpRecorders)
      => /\ o_result = "ok"
              => /\ \A r \in ExpRecorders :
                      GetOnlineTag(r) = ONLINE_TAG <=> r \in o_targets
                 /\ OnlineModels = o_targets
         /\ o_result \in {"running", "raise"}
              => OnlineModels \in {o_old, o_targets}

\* C8, amended: after reset_online_tag returns normally, among the recorders
\* of the experiment exactly the targets are online, every target is online,
\* and online_models() returns the targets that belong to the experiment.
\* While it runs, and after it failed part-way, the online models are some of
\* those of before the call or some of the targets (possibly none), never a
\* mix of a model of before that is no target with a target tagged by this
\* call.
C8_ResetOutcome ==
    o_op = "reset"
      => /\ o_result = "ok"
              => /\ \A r \in ExpRecorders :
                      GetOnlineTag(r) = ONLINE_TAG <=> r \in o_targets
                 /\ \A r \in o_targets : GetOnlineTag(r) = ONLINE_TAG
                 /\ OnlineModels = o_targets \cap ExpRecorders
         /\ o_result \in {"running", "raise"}
              => \/ OnlineModels \subseteq o_old
                 \/ OnlineModels \subseteq o_targets

\* A reset returned that replaced the one online model by another.
C8_Witness ==
    /\ o_op = "reset" /\ o_result = "ok"
    /\ o_old = {"r1"} /\ o_targets = {"r2"}
    /\ OnlineModels = {"r2"}

C17_UnsetIsOffline ==
    /\ \A r \in Recorders :
         tags[r] = "unset" => GetOnlineTag(r) = OFFLINE_TAG
    /\ OnlineModels = {r \in ExpRecorders : tags[r] = ONLINE_TAG}
    /\ (\A r \in ExpRecorders : tags[r] = "unset") => OnlineModels = {}

\* A set_online_tag call returned that put one recorder of the experiment
\* online and left the other with no tag at all.
C17_Witness ==
    /\ o_op = "set" /\ o_result = "ok"
    /\ tags["r1"] = ONLINE_TAG /\ tags["r2"] = "unset"
    /\ OnlineModels = {"r1"}

\* The constructor over every pair of optimizer kinds.
InitCtor ==
    /\ CtorInit /\ BatchParked /\ OnlineParked /\ ClipInit
    /\ TrainerInit /\ cfg = DefaultConfig

NextCtor ==
    \/ CtorNetworks /\ UNCHANGED <<varsT, varsB, varsO, varsG>>
    \/ CtorForeOptimizer /\ UNCHANGED <<varsT, varsB, varsO, varsG>>
    \/ CtorWeightOptimizer /\ UNCHANGED <<varsT, varsB, varsO, varsG>>
    \/ CtorFinish /\ UNCHANGED <<varsT, varsB, varsO, varsG>>

SpecCtor == InitCtor /\ [][NextCtor]_vars

\* The batch loops over every number of rows and batch size.
InitBatch ==
    /\ BatchInit /\ CtorDone /\ OnlineParked /\ ClipInit
    /\ TrainerInit /\ cfg = DefaultConfig

NextBatch ==
    \/ RunPhaseA /\ UNCHANGED <<varsT, varsC, varsO, varsG>>
    \/ RunPhaseB /\ UNCHANGED <<varsT, varsC, varsO, varsG>>
    \/ RunTestEpoch /\ UNCHANGED <<varsT, varsC, varsO, varsG>>
    \/ RunPredict /\ UNCHANGED <<varsT, varsC, varsO, varsG>>

SpecBatch == InitBatch /\ [][NextBatch]_vars

\* The online tool over one recorder store.
InitOnline ==
    /\ OnlineInit /\ CtorDone /\ BatchParked /\ ClipInit
    /\ TrainerInit /\ cfg = DefaultConfig

NextOnline ==
    \/ (\E tag \in {ONLINE_TAG, OFFLINE_TAG}, recs \in SUBSET Recorders :
          SetOnlineTagCall(tag, recs)) /\ UNCHANGED <<varsT, varsC, varsB, varsG>>
    \/ (\E targets \in SUBSET Recorders : ResetOnlineTagCall(targets))
         /\ UNCHANGED <<varsT, varsC, varsB, varsG>>
    \/ SetTagsStep /\ UNCHANGED <<varsT, varsC, varsB, varsG>>
    \/ SetTagsReturn /\ UNCHANGED <<varsT, varsC, varsB, varsG>>
    \/ SetTagsRaise /\ UNCHANGED <<varsT, varsC, varsB, varsG>>
    \/ UpdateOnlinePred /\ UNCHANGED <<varsT, varsC, varsB, varsG>>
    \/ (\E done \in SUBSET ExpRecorders : UpdateRaise(done))
         /\ UNCHANGED <<varsT, varsC, varsB, varsG>>

SpecOnline == InitOnline /\ [][NextOnline]_vars

\* The mini-batch steps of both phases over every gradient.
InitClip ==
    /\ ClipInit /\ CtorDone /\ BatchParked /\ OnlineParked
    /\ TrainerInit /\ cfg = DefaultConfig

NextClip ==
    \/ ZeroGrad /\ UNCHANGED <<varsT, varsC, varsB, varsO>>
    \/ (\E g \in (-MaxGrad)..MaxGrad : Backward(g))
         /\ UNCHANGED <<varsT, varsC, varsB, varsO>>
    \/ ClipGradValue /\ UNCHANGED <<varsT, varsC, varsB, varsO>>
    \/ OptimizerStep /\ UNCHANGED <<varsT, varsC, varsB, varsO>>
    \/ EnterPhaseB /\ UNCHANGED <<varsT, varsC, varsB, varsO>>
    \/ EnterPhaseA /\ UNCHANGED <<varsT, varsC, varsB, varsO>>

SpecClip == InitClip /\ [][NextClip]_vars

Abs(g) == IF g < 0 THEN -g ELSE g

WithinBound(gr) == gr = <<>> \/ Abs(gr[1]) <= ClipBound

\* C14: in every mini-batch step of either phase the statements run in the
\* order zero-grad, backward, clip, optimizer step; the gradient an optimizer
\* step applies to the network it updates is within the clip bound in
\* absolute value; and once the clip that follows a backward pass has run, no
\* gradient of either network exceeds the bound, until the next backward pass.
C14_ClipBeforeStep ==
    /\ [][g_pc' # g_pc
            => <<g_pc, g_pc'>> \in {<<"forward", "zeroed">>,
                                    <<"zeroed", "backward">>,
                                    <<"backward", "clipped">>,
                                    <<"clipped", "forward">>}]_vars
    /\ [][g_pc = "clipped" /\ g_pc' = "forward"
            => /\ g_used' = g_grad[IF g_phase = "A" THEN "fore" ELSE "weight"]
               /\ g_used' # <<>>
               /\ WithinBound(g_used')]_vars
    /\ [](WithinBound(g_used))
    /\ [](g_pc # "backward" => \A n \in Nets : WithinBound(g_grad[n]))

\* A Phase B step applied a gradient that backward had left below the lower
\* bound, while the Forecast Network still carried its clipped gradient of
\* Phase A.
C14_Witness ==
    /\ g_phase = "B" /\ g_pc = "forward"
    /\ g_used = <<-ClipBound>>
    /\ g_grad["weight"] = <<-ClipBound>>
    /\ g_grad["fore"] = <<ClipBound>>
====
